---------------------------- MODULE Spec2Model ----------------------------
(***************************************************************************)
(* koishi-plugin-magnet-whatslinkinfo: the middleware registered by apply  *)
(* (src/src/index.ts), its throttle, its remote lookup, the classification *)
(* of the answer, the local-decode fallback and the reply assembly.        *)
(*                                                                         *)
(* Strings are sequences of tokens.  A token stands for a run of           *)
(* characters that the code never looks inside ("abc", "name"), or for one *)
(* piece of syntax the code does look at ("=", "&", "%25", "urn:btih:").   *)
(***************************************************************************)
EXTENDS Integers, Sequences, FiniteSets, TLC

-----------------------------------------------------------------------------
(* Sequence helpers *)

RECURSIVE IndexOfFrom(_, _, _)
\* least i >= from with s[i] = t, or 0
IndexOfFrom(s, t, from) ==
    IF from > Len(s) THEN 0
    ELSE IF s[from] = t THEN from
    ELSE IndexOfFrom(s, t, from + 1)

IndexOf(s, t) == IndexOfFrom(s, t, 1)

\* String.prototype.includes for a token sequence: needle occurs contiguously
Includes(s, needle) ==
    \E i \in 1..(Len(s) - Len(needle) + 1) :
        SubSeq(s, i, i + Len(needle) - 1) = needle

RECURSIVE SplitOn(_, _)
\* String.prototype.split(sep) without a limit: always at least one piece
SplitOn(s, sep) ==
    LET i == IndexOf(s, sep)
    IN  IF i = 0 THEN <<s>>
        ELSE <<SubSeq(s, 1, i - 1)>> \o SplitOn(SubSeq(s, i + 1, Len(s)), sep)

-----------------------------------------------------------------------------
(* Magnet Extractor: index.ts 139-147 *)

\* the scheme, as /(magnet:\?[^\s]+)/gi sees it: the i flag admits any case
IsScheme(t) == t \in {"magnet:?", "MAGNET:?"}

\* the match of the regex inside one whitespace-free word, or << >>: the
\* leftmost scheme that is followed by at least one more character; [^\s]+
\* is greedy and takes the rest of the word
MatchInWord(w) ==
    LET hits == {i \in 1..(Len(w) - 1) : IsScheme(w[i])}
    IN  IF hits = {} THEN << >>
        ELSE LET i == CHOOSE j \in hits : \A k \in hits : j <= k
             IN  SubSeq(w, i, Len(w))

RECURSIVE FirstMatch(_)
\* .match(magnetRegex)?.[0] over the concatenated text (a sequence of
\* words separated by whitespace); << >> stands for undefined
FirstMatch(text) ==
    IF text = << >> THEN << >>
    ELSE IF MatchInWord(Head(text)) # << >> THEN MatchInWord(Head(text))
    ELSE FirstMatch(Tail(text))

HashMarker == <<"xt", "=", "urn:btih:">>

\* magnetURI.includes('xt=urn:btih:')
HasHashParam(uri) == Includes(uri, HashMarker)

\* Triggers with the hash marker looked for in the whole text instead of in the
\* first match
Triggers_anywhere(text) ==
    /\ FirstMatch(text) # << >>
    /\ \E i \in 1..Len(text) : HasHashParam(text[i])

\* TRUE when the middleware goes on to the throttle, FALSE when it returns next()
Triggers(text) ==
    /\ FirstMatch(text) # << >>
    /\ HasHashParam(FirstMatch(text))

-----------------------------------------------------------------------------
(* Percent decoding and parseInt, as the two decoders use them *)

Digits == {"0", "7"}

DigitVal(t) == IF t = "7" THEN 7 ELSE 0

\* application/x-www-form-urlencoded decoding of one name or value, as
\* URLSearchParams does it: '+' is a space, valid escapes are decoded, an
\* invalid escape is kept as it is written
FormDecode(s) ==
    [i \in 1..Len(s) |->
        CASE s[i] = "+"   -> " "
          [] s[i] = "%20" -> " "
          [] s[i] = "%25" -> "%"
          [] OTHER        -> s[i]]

RECURSIVE DecodeFrom(_, _)
\* decodeURIComponent from position i: [ok, v]; ok = FALSE is a URIError.
\* A bare "%" (it only occurs in text that was decoded once already) starts an
\* escape with the two characters after it: two digits give a character,
\* anything else is malformed.  '+' is left alone.
DecodeFrom(s, i) ==
    IF i > Len(s) THEN [ok |-> TRUE, v |-> << >>]
    ELSE IF s[i] = "%zz" THEN [ok |-> FALSE, v |-> << >>]
    ELSE IF s[i] = "%" THEN
        IF i + 2 <= Len(s) /\ s[i + 1] \in Digits /\ s[i + 2] \in Digits
        THEN LET r == DecodeFrom(s, i + 3)
             IN  [ok |-> r.ok, v |-> <<"chr">> \o r.v]
        ELSE [ok |-> FALSE, v |-> << >>]
    ELSE LET r == DecodeFrom(s, i + 1)
             c == CASE s[i] = "%20" -> " "
                    [] s[i] = "%25" -> "%"
                    [] OTHER        -> s[i]
         IN  [ok |-> r.ok, v |-> <<c>> \o r.v]

decodeURIComponent(s) == DecodeFrom(s, 1)

RECURSIVE DigitsFrom(_, _, _)
\* the value of the run of digits of s that starts at i, given the value so far
DigitsFrom(s, i, acc) ==
    IF i > Len(s) \/ s[i] \notin Digits THEN acc
    ELSE DigitsFrom(s, i + 1, acc * 10 + DigitVal(s[i]))

RECURSIVE SkipSpaces(_, _)
SkipSpaces(s, i) ==
    IF i <= Len(s) /\ s[i] = " " THEN SkipSpaces(s, i + 1) ELSE i

Null == [t |-> "null", v |-> 0]
NaN  == [t |-> "nan", v |-> 0]
Num(n) == [t |-> "num", v |-> n]

\* parseInt(s): leading white space, an optional sign, then decimal digits;
\* NaN when no digit follows
parseInt(s) ==
    LET i == SkipSpaces(s, 1)
        signed == i <= Len(s) /\ s[i] \in {"-", "+"}
        j == IF signed THEN i + 1 ELSE i
        neg == signed /\ s[i] = "-"
    IN  IF j > Len(s) \/ s[j] \notin Digits THEN NaN
        ELSE LET n == DigitsFrom(s, j, 0)
             IN  Num(IF neg THEN 0 - n ELSE n)

-----------------------------------------------------------------------------
(* Local Decoder, strategy 1: parseLocalMagnet, index.ts 19-49 *)

\* the default of the name field; it stands for the literal of index.ts 38, 67
DefaultName == <<"DEFAULT_NAME">>

\* one '&'-separated piece as URLSearchParams reads it: split at the first '='
SearchParam(seg) ==
    LET i == IndexOf(seg, "=")
    IN  IF i = 0 THEN [name |-> FormDecode(seg), value |-> << >>]
        ELSE [name  |-> FormDecode(SubSeq(seg, 1, i - 1)),
              value |-> FormDecode(SubSeq(seg, i + 1, Len(seg)))]

RECURSIVE ParamsOf(_)
\* new URLSearchParams(url.search), from the list of pieces: empty pieces are skipped
ParamsOf(segs) ==
    IF segs = << >> THEN << >>
    ELSE IF Head(segs) = << >> THEN ParamsOf(Tail(segs))
    ELSE <<SearchParam(Head(segs))>> \o ParamsOf(Tail(segs))

\* url.search of new URL(magnetURI): what follows the '?' of the scheme token
URLSearchParams(uri) == ParamsOf(SplitOn(Tail(uri), "&"))

RECURSIVE getAll(_, _)
getAll(params, key) ==
    IF params = << >> THEN << >>
    ELSE IF Head(params).name = <<key>>
         THEN <<Head(params).value>> \o getAll(Tail(params), key)
         ELSE getAll(Tail(params), key)

\* params.get(key): [found, v]; found = FALSE is null
get(params, key) ==
    LET all == getAll(params, key)
    IN  IF all = << >> THEN [found |-> FALSE, v |-> << >>]
        ELSE [found |-> TRUE, v |-> Head(all)]

\* xt.replace('urn:btih:', ''): the first occurrence only, wherever it is
StripBtih(s) ==
    LET i == IndexOf(s, "urn:btih:")
    IN  IF i = 0 THEN s ELSE SubSeq(s, 1, i - 1) \o SubSeq(s, i + 1, Len(s))

NullResult == [null |-> TRUE, hash |-> << >>, name |-> << >>,
               trackers |-> << >>, size |-> Null]

\* The result object, or NullResult when the try block throws.  hash is << >>
\* both for undefined (no xt) and for the empty string: the callers only test
\* its truthiness.  The name is decoded a second time (params.get already
\* decoded it), and that decodeURIComponent is the one call that can throw.
parseLocalMagnet(uri) ==
    LET params == URLSearchParams(uri)
        xt == get(params, "xt")
        dn == get(params, "dn")
        xl == get(params, "xl")
        nm == decodeURIComponent(dn.v)
    IN  IF dn.v # << >> /\ ~nm.ok THEN NullResult
        ELSE [null     |-> FALSE,
              hash     |-> IF xt.found THEN StripBtih(xt.v) ELSE << >>,
              name     |-> IF dn.v # << >> THEN nm.v ELSE DefaultName,
              trackers |-> getAll(params, "tr"),
              size     |-> IF xl.v # << >> THEN parseInt(xl.v) ELSE Null]

-----------------------------------------------------------------------------
(* Local Decoder, strategy 2: parseLocalMagnetManual, index.ts 52-110 *)

EmptyResult == [null |-> FALSE, hash |-> << >>, name |-> DefaultName,
                trackers |-> << >>, size |-> Null]

\* one iteration of the for loop (72-102) on the result so far; a result with
\* null = TRUE is the exception of decodeURIComponent, which ends the function
ManualPair(result, pair) ==
    LET pieces == SplitOn(pair, "=")
        key == pieces[1]
        \* pair.split('=', 2): the piece after the first '=', cut at the second
        hasValue == Len(pieces) >= 2 /\ pieces[2] # << >>
        dec == decodeURIComponent(pieces[2])
    IN  IF result.null \/ ~hasValue THEN result
        ELSE IF ~dec.ok THEN NullResult
        ELSE CASE key = <<"xt">> ->
                    IF dec.v # << >> /\ Head(dec.v) = "urn:btih:"
                    THEN [result EXCEPT !.hash = Tail(dec.v)]
                    ELSE result
               [] key = <<"dn">> -> [result EXCEPT !.name = dec.v]
               [] key = <<"tr">> ->
                    [result EXCEPT !.trackers = Append(@, dec.v)]
               [] key = <<"xl">> ->
                    IF parseInt(dec.v).t = "num"
                    THEN [result EXCEPT !.size = parseInt(dec.v)]
                    ELSE result
               [] OTHER -> result

RECURSIVE ManualLoop(_, _)
ManualLoop(result, pairs) ==
    IF pairs = << >> THEN result
    ELSE ManualLoop(ManualPair(result, Head(pairs)), Tail(pairs))

parseLocalMagnetManual(uri) ==
    IF Head(uri) # "magnet:?" THEN NullResult
    ELSE LET result == ManualLoop(EmptyResult, SplitOn(Tail(uri), "&"))
         IN  IF result.null \/ result.hash = << >> THEN NullResult ELSE result

-----------------------------------------------------------------------------
(* Rate limiter: index.ts 134-135, 149-155 *)

minInterval == 3000

\* ThrottleAllowed with the interval taken in seconds
ThrottleAllowed_seconds(now, last) == ~(now - last < minInterval \div 1000)

\* now - lastRequestTime < minInterval is the rejection (151)
ThrottleAllowed(now, last) == ~(now - last < minInterval)

\* CeilSeconds with Math.floor in place of Math.ceil
CeilSeconds_floor(x) == x \div 1000

\* Math.ceil(x / 1000) for an integer x
CeilSeconds(x) == 0 - ((0 - x) \div 1000)

\* the number shown in the wait notice (152)
RetryAfterSec(now, last) == CeilSeconds(minInterval - (now - last))

-----------------------------------------------------------------------------
(* The remote answer: an untyped JSON value.  A field is absent (undefined,  *)
(* null and every other falsy non-string count as absent: the code only      *)
(* tests truthiness), a string (a sequence of words), or "obj": a truthy     *)
(* value that is no string (an object, a number, true).                      *)

Absent   == [t |-> "absent", v |-> << >>]
Str(ws)  == [t |-> "str", v |-> ws]
NonText  == [t |-> "obj", v |-> << >>]

\* JavaScript truthiness of such a field
Truthy(f) == f.t = "obj" \/ (f.t = "str" /\ f.v # << >>)

\* String.prototype.toLowerCase, word by word
LowerWord(w) ==
    CASE w = "Rate"     -> "rate"
      [] w = "QUOTA"    -> "quota"
      [] w = "Frequent" -> "frequent"
      [] OTHER          -> w

toLowerCase(ws) == [i \in 1..Len(ws) |-> LowerWord(ws[i])]

\* the words of the model's vocabulary that contain the keyword as a substring
WordsWith(kw) ==
    CASE kw = "rate"     -> {"rate", "generate"}
      [] kw = "limit"    -> {"limit", "unlimited"}
      [] kw = "quota"    -> {"quota"}
      [] kw = "frequent" -> {"frequent"}
      [] OTHER           -> {kw}

\* text.includes(kw) for a keyword without white space
includes(ws, kw) == \E i \in 1..Len(ws) : ws[i] \in WordsWith(kw)

\* the test of index.ts 192-195 on errorMsg, a string
IsQuotaText(ws) ==
    \/ includes(toLowerCase(ws), "quota")
    \/ includes(toLowerCase(ws), "limit")
    \/ includes(toLowerCase(ws), "frequent")
    \/ includes(toLowerCase(ws), "rate")

\* apiResponse.error || apiResponse.message (188)
ErrorMsgOf(body) == IF Truthy(body.error) THEN body.error ELSE body.message

\* The decision chain of index.ts 184-259 on a fulfilled lookup, first match
\* wins.  "throw" is an exception raised inside the try block: the Error of
\* line 184, or the TypeError of errorMsg.toLowerCase() on a value that is
\* no string.
Classify(body) ==
    IF body.empty THEN "throw"
    ELSE IF Truthy(body.error) \/ Truthy(body.message) THEN
        IF ErrorMsgOf(body).t # "str" THEN "throw"
        ELSE IF IsQuotaText(ErrorMsgOf(body).v) THEN "quota"
        ELSE "other"
    ELSE IF ~Truthy(body.name) \/ body.size.t # "num" \/ body.size.v = 0
        THEN "incomplete"
    ELSE IF body.name.t = "str" /\ includes(toLowerCase(body.name.v), "frequent")
        THEN "frequentName"
    ELSE "success"

\* a JSON object body; screenshots is the list of entry kinds: "obj" (an object
\* with a screenshot URL), "str" (a URL string), "bad" (anything else)
Body(e, m, n, z, sh) ==
    [got |-> "body", empty |-> FALSE, error |-> e, message |-> m, name |-> n,
     size |-> z, screenshots |-> sh]

\* an empty or absent body: !apiResponse (184)
EmptyBody == [Body(Absent, Absent, Absent, Null, << >>) EXCEPT !.empty = TRUE]

\* ctx.http.get was rejected, and: no answer yet
TransportFailure == [EmptyBody EXCEPT !.got = "failure"]
NoResponse       == [EmptyBody EXCEPT !.got = "none"]

-----------------------------------------------------------------------------
(* State *)

VARIABLES
    config,           \* the Config object apply() was called with
    lastRequestTime,  \* index.ts 134: shared by every run of the middleware
    clock,            \* the wall clock, as the last Date.now() read it
    h,                \* per session: the run of the middleware that is in flight
    accepted,         \* history: the timestamps of the triggers the throttle let pass
    probe             \* the last direct call of one of the pure functions, with its result

vars == <<config, lastRequestTime, clock, h, accepted, probe>>

\* no pure function has been called directly
NoCall == [fn |-> "none"]

Sessions == {"s1", "s2"}

Idle == [pc |-> "idle", text |-> << >>, uri |-> << >>, platform |-> "", ph |-> "unset",
         shots |-> << >>, i |-> 0, images |-> << >>, queue |-> << >>,
         now |-> 0, resp |-> NoResponse, threw |-> FALSE, del |-> "none",
         trace |-> << >>,
         \* what the run was given: the debugMode of its configuration, the
         \* lastRequestTime it read, and how each of its awaits ended
         debugMode |-> FALSE, last |-> 0, heard |-> << >>,
         \* the lines the run logged because of debugMode
         log |-> << >>]

-----------------------------------------------------------------------------
(* Messages the middleware sends, and the events of a run's trace *)

WaitNotice(sec)   == [kind |-> "wait", sec |-> sec]
Placeholder       == [kind |-> "placeholder"]
LocalFailNotice   == [kind |-> "localfail"]
QuotaNotice(text) == [kind |-> "quota", text |-> text]
ErrorNotice(text) == [kind |-> "error", text |-> text]
IncompleteNotice  == [kind |-> "incomplete"]
GenericNotice     == [kind |-> "generic"]

EvNext       == [op |-> "next"]
EvSend(m)    == [op |-> "send", msg |-> m]
EvGet        == [op |-> "get"]
EvImage(i)   == [op |-> "image", i |-> i]
EvDelete     == [op |-> "delete"]
EvLocal(fn)  == [op |-> "local", fn |-> fn]

\* session.send(m) is called and awaited: the run waits in pc
Send(r, m, pc) == [r EXCEPT !.trace = Append(@, EvSend(m)), !.pc = pc]

\* if (config.debugMode) logger.info(...) / logger.debug(...): 161-167,
\* 179-182, 308, 341
Log(r, what) == IF config.debugMode THEN [r EXCEPT !.log = Append(@, what)] ELSE r

\* how an await ended: whether it returned, whether it returned message ids,
\* and the body it returned
Outcome(ok, ids, body) == [ok |-> ok, ids |-> ids, body |-> body]
Settled(ok) == Outcome(ok, FALSE, NoResponse)

\* an await of the run ended with outcome o
Heard(r, o) == [r EXCEPT !.heard = Append(@, o)]

-----------------------------------------------------------------------------
(* The fallback: index.ts 202-232 (quota branch) and 273-301 (catch) *)

\* the decoders called, in order: the manual one only if the first gave null
DecodersCalled(uri) ==
    IF parseLocalMagnet(uri).null
    THEN <<EvLocal("parseLocalMagnet"), EvLocal("parseLocalMagnetManual")>>
    ELSE <<EvLocal("parseLocalMagnet")>>

\* LocalResult with the hash of the manual decoder filled in where the
\* structured result has none
LocalResult_merged(uri) ==
    IF parseLocalMagnet(uri).null THEN parseLocalMagnetManual(uri)
    ELSE IF parseLocalMagnet(uri).hash = << >> /\ ~parseLocalMagnetManual(uri).null
         THEN [parseLocalMagnet(uri) EXCEPT !.hash = parseLocalMagnetManual(uri).hash]
    ELSE parseLocalMagnet(uri)

\* localResult after lines 202-207 / 273-278
LocalResult(uri) ==
    IF parseLocalMagnet(uri).null THEN parseLocalMagnetManual(uri)
    ELSE parseLocalMagnet(uri)

\* truthiness of localResult.size (213, 284): null, NaN and 0 are falsy
SizeTruthy(size) == size.t = "num" /\ size.v # 0

\* hasUsefulInfo (216, 287)
hasUsefulInfo(lr) ==
    lr.name # DefaultName \/ lr.size # Null \/ Len(lr.trackers) > 0

\* the reduced-form reply (218-224, 289-295); sizeText is formatBytes of the
\* bytes when known, the 'unknown' literal otherwise
ReducedReply(banner, lr) ==
    [kind     |-> "reduced",
     banner   |-> banner,
     name     |-> lr.name,
     hash     |-> lr.hash,
     sizeText |-> IF SizeTruthy(lr.size)
                  THEN [known |-> TRUE, bytes |-> lr.size.v]
                  ELSE [known |-> FALSE, bytes |-> 0],
     trackers |-> Len(lr.trackers),
     hint     |-> IF hasUsefulInfo(lr) THEN "basicOnly" ELSE "incompleteLink"]

\* what the fallback sends (211-232, 282-301)
FallbackMessage(banner, uri) ==
    LET lr == LocalResult(uri)
    IN  IF ~lr.null /\ lr.hash # << >> THEN ReducedReply(banner, lr)
        ELSE LocalFailNotice

\* the quota branch with useLocalParsing (198-232): decode, send, return
QuotaFallback(r) ==
    Send([r EXCEPT !.trace = @ \o DecodersCalled(r.uri)],
         FallbackMessage("quota", r.uri), "sendTry")

\* Catch swallowing the error: nothing is sent, the finally block follows
Catch_silent(r) ==
    IF r.ph = "ids"
    THEN [r EXCEPT !.trace = Append(@, EvDelete), !.pc = "delete", !.queue = << >>]
    ELSE [r EXCEPT !.pc = "done", !.queue = << >>]

\* Catch asking the service once more after a rejected lookup
Catch_retry(r) ==
    IF r.resp.got = "failure" /\ Len(SelectSeq(r.trace, LAMBDA e : e.op = "get")) < 2
    THEN [r EXCEPT !.pc = "lookup", !.trace = Append(@, EvGet)]
    ELSE IF config.useLocalParsing
    THEN Send([r EXCEPT !.trace = @ \o DecodersCalled(r.uri), !.queue = << >>],
              FallbackMessage("failed", r.uri), "sendCatch")
    ELSE Send([r EXCEPT !.queue = << >>], GenericNotice, "sendCatch")

\* Catch as it was before the local fallback was added: the generic notice only
Catch_generic(r) == Send([r EXCEPT !.queue = << >>], GenericNotice, "sendCatch")

\* the catch block (265-305) up to its awaited send
Catch(r) ==
    IF config.useLocalParsing
    THEN Send([r EXCEPT !.trace = @ \o DecodersCalled(r.uri), !.queue = << >>],
              FallbackMessage("failed", r.uri), "sendCatch")
    ELSE Send([r EXCEPT !.queue = << >>], GenericNotice, "sendCatch")

\* Finally with the deletion left out when debugMode is on
Finally_debugKeeps(r) ==
    IF r.ph = "ids" /\ ~config.debugMode
    THEN [r EXCEPT !.trace = Append(@, EvDelete), !.pc = "delete", !.queue = << >>]
    ELSE [r EXCEPT !.pc = "done", !.queue = << >>]

\* Finally as code placed after the try statement would run: skipped when the
\* catch block throws
Finally_afterTry(r) ==
    IF r.ph = "ids" /\ ~r.threw
    THEN [r EXCEPT !.trace = Append(@, EvDelete), !.pc = "delete", !.queue = << >>]
    ELSE [r EXCEPT !.pc = "done", !.queue = << >>]

\* the finally block (306-311) up to its awaited deleteMessage
Finally(r) ==
    IF r.ph = "ids"
    THEN [Log(r, "recall") EXCEPT !.trace = Append(@, EvDelete), !.pc = "delete",
                                  !.queue = << >>]
    ELSE [r EXCEPT !.pc = "done", !.queue = << >>]

-----------------------------------------------------------------------------
(* Reply Formatter: formatApiResponse, index.ts 315-383 *)

TextBlock == [k |-> "text", i |-> 0]
Image(i)  == [k |-> "image", i |-> i]

\* one sendable unit: h(tag, children)
Unit(tag, children) == [kind |-> "unit", tag |-> tag, children |-> children]

\* hasScreenshots (332); a value that is no array counts as the empty list
hasScreenshots(shots) == config.showScreenshot /\ Len(shots) > 0

\* imageUrl of an entry is not null (344-349): an object with a screenshot URL
\* or a URL string
HasUrl(item) == item \in {"obj", "str"}

RECURSIVE NextFetch(_, _)
\* the first entry at or after position i that is fetched, or 0
NextFetch(shots, i) ==
    IF i > Len(shots) THEN 0
    ELSE IF HasUrl(shots[i]) THEN i
    ELSE NextFetch(shots, i + 1)

\* the platforms of line 375
ForwardPlatforms == {"qq", "onebot"}

\* Assemble with the forward test first: a figure whenever useForward is set
\* on a forward platform, sendSeparately or not
Assemble_forwardFirst(images, platform) ==
    LET children == <<TextBlock>> \o [j \in 1..Len(images) |-> Image(images[j])]
    IN  IF config.useForward /\ platform \in ForwardPlatforms
        THEN <<Unit("figure", children)>>
        ELSE IF config.sendSeparately
        THEN <<Unit("message", <<TextBlock>>)>>
             \o [j \in 1..Len(images) |-> Unit("message", <<Image(images[j])>>)]
        ELSE <<Unit("message", children)>>

\* Assemble without the sendSeparately branch: always one composite unit
Assemble_bundled(images, platform) ==
    LET children == <<TextBlock>> \o [j \in 1..Len(images) |-> Image(images[j])]
    IN  IF config.useForward /\ platform \in ForwardPlatforms
        THEN <<Unit("figure", children)>>
        ELSE <<Unit("message", children)>>

\* the returned array (363-382)
Assemble(images, platform) ==
    IF config.sendSeparately
    THEN <<Unit("message", <<TextBlock>>)>>
         \o [j \in 1..Len(images) |-> Unit("message", <<Image(images[j])>>)]
    ELSE LET children == <<TextBlock>> \o [j \in 1..Len(images) |-> Image(images[j])]
         IN  IF config.useForward /\ platform \in ForwardPlatforms
             THEN <<Unit("figure", children)>>
             ELSE <<Unit("message", children)>>

\* formatApiResponse has returned: the loop of 263-265 sends the first unit
SendUnits(r) ==
    LET units == Assemble(r.images, r.platform)
    IN  Send([r EXCEPT !.queue = Tail(units), !.i = 0], Head(units), "sendTry")

\* the screenshot loop (343-359) from entry i on, up to its next awaited
\* ctx.http.get, or to the end of formatApiResponse
FetchFrom(r, i) ==
    LET j == IF hasScreenshots(r.shots) THEN NextFetch(r.shots, i) ELSE 0
    IN  IF j = 0 THEN SendUnits(r)
        ELSE [r EXCEPT !.i = j, !.pc = "fetch", !.trace = Append(@, EvImage(j))]

-----------------------------------------------------------------------------
(* The middleware, one action per stretch between two awaits *)

\* time that passes between two messages
TickMs == 1500
Deltas == {0, TickMs, 2 * TickMs}

\* the clock at construction, and where the model stops it
Epoch    == 3000
MaxClock == 6000

Platforms == {"onebot", "discord"}

\* index.ts 137-160: a message arrives; extraction, hash gate, throttle, and
\* the first awaited send
Receive(s, texts) ==
    /\ h[s].pc = "idle"
    /\ \E text \in texts, d \in Deltas, p \in Platforms :
        LET now == clock + d
            uri == FirstMatch(text)
            r0  == [Idle EXCEPT !.text = text, !.platform = p, !.now = now,
                                !.debugMode = config.debugMode,
                                !.last = lastRequestTime]
        IN  /\ now <= MaxClock
            /\ clock' = now
            /\ IF ~Triggers(text)
               THEN /\ h' = [h EXCEPT ![s] =
                                [r0 EXCEPT !.pc = "done", !.trace = <<EvNext>>]]
                    /\ UNCHANGED <<lastRequestTime, accepted>>
               ELSE IF ~ThrottleAllowed(now, lastRequestTime)
               THEN /\ h' = [h EXCEPT ![s] =
                                Send([r0 EXCEPT !.uri = uri],
                                     WaitNotice(RetryAfterSec(now, lastRequestTime)),
                                     "sendWait")]
                    /\ UNCHANGED <<lastRequestTime, accepted>>
               ELSE /\ lastRequestTime' = now
                    /\ accepted' = Append(accepted, now)
                    /\ h' = [h EXCEPT ![s] =
                                Send([r0 EXCEPT !.uri = uri], Placeholder,
                                     "sendPlaceholder")]
    /\ UNCHANGED <<config, probe>>

\* index.ts 152-153: the wait notice was sent, or the send threw (outside try)
WaitSendDone(s) ==
    /\ h[s].pc = "sendWait"
    /\ \E ok \in BOOLEAN :
        h' = [h EXCEPT ![s] = Heard([@ EXCEPT !.pc = "done", !.threw = ~ok], Settled(ok))]
    /\ UNCHANGED <<config, lastRequestTime, clock, accepted, probe>>

\* index.ts 160-176: the placeholder send returns message ids, returns none,
\* or throws into the catch block; then the lookup is issued
PlaceholderDone(s) ==
    /\ h[s].pc = "sendPlaceholder"
    /\ \E out \in {"ids", "none", "throw"} :
        h' = [h EXCEPT ![s] =
                IF out = "throw" THEN Catch(Heard(@, Settled(FALSE)))
                ELSE [Log(Log(Heard(@, Outcome(TRUE, out = "ids", NoResponse)),
                              "link"), "request")
                        EXCEPT !.ph = out, !.pc = "lookup",
                               !.trace = Append(@, EvGet)]]
    /\ UNCHANGED <<config, lastRequestTime, clock, accepted, probe>>

\* index.ts 184-262 after a fulfilled lookup
OnResponse(r, body) ==
    LET c == Classify(body)
        r1 == Log([r EXCEPT !.resp = body], "response")
    IN  CASE c = "throw" -> Catch(r1)
          [] c = "quota" ->
                IF config.useLocalParsing THEN QuotaFallback(r1)
                ELSE Send(r1, QuotaNotice(ErrorMsgOf(body).v), "sendTry")
          [] c = "other" -> Send(r1, ErrorNotice(ErrorMsgOf(body).v), "sendTry")
          [] c = "incomplete" -> Send(r1, IncompleteNotice, "sendTry")
          [] c = "frequentName" -> Send(r1, ErrorNotice(body.name.v), "sendTry")
          [] OTHER ->
                LET r2 == [r1 EXCEPT !.shots = body.screenshots]
                IN  FetchFrom(IF hasScreenshots(r2.shots) THEN Log(r2, "screenshots")
                              ELSE r2, 1)

\* index.ts 169-262: ctx.http.get is rejected (timeout, connection error,
\* non-2xx) or fulfilled with a body
LookupDone(s, bodies) ==
    /\ h[s].pc = "lookup"
    /\ \/ h' = [h EXCEPT ![s] =
                    Catch(Heard([@ EXCEPT !.resp = TransportFailure],
                                Outcome(FALSE, FALSE, TransportFailure)))]
       \/ \E body \in bodies :
            h' = [h EXCEPT ![s] =
                    OnResponse(Heard(@, Outcome(TRUE, FALSE, body)), body)]
    /\ UNCHANGED <<config, lastRequestTime, clock, accepted, probe>>

\* FetchDone with a failed download treated as a failure of the run: the
\* exception reaches the catch block
FetchDone_escalate(s) ==
    /\ h[s].pc = "fetch"
    /\ \E ok \in BOOLEAN :
        h' = [h EXCEPT ![s] =
                IF ok THEN FetchFrom([@ EXCEPT !.images = Append(@, h[s].i)],
                                     h[s].i + 1)
                ELSE Catch(@)]
    /\ UNCHANGED <<config, lastRequestTime, clock, accepted, probe>>

\* index.ts 351-358: one screenshot download ends; a failure drops the image
FetchDone(s) ==
    /\ h[s].pc = "fetch"
    /\ \E ok \in BOOLEAN :
        h' = [h EXCEPT ![s] =
                FetchFrom(Heard([@ EXCEPT !.images = IF ok THEN Append(@, h[s].i)
                                                    ELSE @], Settled(ok)),
                          h[s].i + 1)]
    /\ UNCHANGED <<config, lastRequestTime, clock, accepted, probe>>

\* a send inside the try block ends: a notice followed by return, or one unit
\* of the loop 263-265; an exception goes to the catch block
TrySendDone(s) ==
    /\ h[s].pc = "sendTry"
    /\ \E ok \in BOOLEAN :
        h' = [h EXCEPT ![s] =
                IF ~ok THEN Catch(Heard(@, Settled(ok)))
                ELSE IF @.queue = << >> THEN Finally(Heard(@, Settled(ok)))
                ELSE Send([Heard(@, Settled(ok)) EXCEPT !.queue = Tail(@)], Head(@.queue),
                          "sendTry")]
    /\ UNCHANGED <<config, lastRequestTime, clock, accepted, probe>>

\* the send of the catch block ends; its exception leaves the middleware
\* after the finally block
CatchSendDone(s) ==
    /\ h[s].pc = "sendCatch"
    /\ \E ok \in BOOLEAN :
        h' = [h EXCEPT ![s] = Finally(Heard([@ EXCEPT !.threw = ~ok], Settled(ok)))]
    /\ UNCHANGED <<config, lastRequestTime, clock, accepted, probe>>

\* index.ts 309: deleteMessage ends; try {} catch {} swallows its exception
DeleteDone(s) ==
    /\ h[s].pc = "delete"
    /\ \E ok \in BOOLEAN :
        h' = [h EXCEPT ![s] =
                Heard([@ EXCEPT !.pc = "done", !.del = IF ok THEN "ok" ELSE "failed"],
                      Settled(ok))]
    /\ UNCHANGED <<config, lastRequestTime, clock, accepted, probe>>

\* the promise of the middleware has settled: the run and its locals are gone
Return(s) ==
    /\ h[s].pc = "done"
    /\ h' = [h EXCEPT ![s] = Idle]
    /\ UNCHANGED <<config, lastRequestTime, clock, accepted, probe>>

-----------------------------------------------------------------------------
(* Inputs *)

Hash == <<"xt", "=", "urn:btih:", "hashv">>

\* magnet:?xt=urn:btih:hashv&dn=name&tr=name&xl=7
FullLink == <<"magnet:?">> \o Hash
            \o <<"&", "dn", "=", "name", "&", "tr", "=", "name", "&", "xl", "=", "7">>

\* magnet:?dn=xt=urn:btih:hashv : passes the hash gate, carries no xt parameter
NoXtLink == <<"magnet:?", "dn", "=">> \o Hash

\* magnet:?xt=urn:btih:hashv&dn=%25 : the name decodes to a bare '%'
PercentLink == <<"magnet:?">> \o Hash \o <<"&", "dn", "=", "%25">>

Links == {FullLink, NoXtLink, PercentLink}

\* messages that trigger nothing: no scheme; a scheme followed by white space;
\* a first match without hash followed by a complete link
QuietTexts ==
    { << <<"hello">> >>,
      << <<"magnet:?">>, Hash >>,
      << <<"magnet:?", "dn", "=", "name">>, FullLink >> }

\* a link alone, and a link glued to the end of a word after some other text
Texts == QuietTexts \cup {<<l>> : l \in Links}
         \cup {<< <<"see">>, <<"name">> \o FullLink >>}

MaxShots == 3

RECURSIVE SeqsUpTo(_, _)
\* the sequences over S of length at most n
SeqsUpTo(S, n) ==
    IF n = 0 THEN {<< >>}
    ELSE LET shorter == SeqsUpTo(S, n - 1)
         IN  shorter \cup {Append(q, x) : q \in shorter, x \in S}

\* data.screenshots: a list of screenshot objects or a list of URL strings,
\* either with entries that yield no URL among them
ShotLists ==
    SeqsUpTo({"obj", "bad"}, MaxShots) \cup SeqsUpTo({"str", "bad"}, MaxShots)

RateLimited == Str(<<"Rate", "limit", "exceeded">>)
Generate    == Str(<<"generate", "failed">>)
BadLink     == Str(<<"invalid", "link">>)
TooFrequent == Str(<<"too", "Frequent">>)
Title       == Str(<<"name">>)

\* the bodies the lookup may answer with
Bodies ==
    {EmptyBody}
    \cup {Body(e, m, n, z, << >>) :
            e \in {Absent, RateLimited, BadLink, NonText},
            m \in {Absent, Generate},
            n \in {Absent, Title, TooFrequent},
            z \in {Null, Num(1536)}}
    \cup {Body(Str(<< >>), Generate, Title, Num(1536), << >>),
          Body(Absent, Absent, Title, Num(0), << >>),
          Body(Absent, Absent, NonText, Num(1536), << >>)}
    \cup {Body(Absent, Absent, Title, Num(1536), sh) : sh \in ShotLists}

\* debugMode is off here: it only adds log lines, and SpecDebug runs the
\* middleware with it on and off
Configs == [useLocalParsing : BOOLEAN, showScreenshot : BOOLEAN,
            sendSeparately : BOOLEAN, useForward : BOOLEAN,
            debugMode : {FALSE}]

-----------------------------------------------------------------------------
(* Specifications *)

Init ==
    /\ config \in Configs
    /\ lastRequestTime = 0
    /\ clock = Epoch
    /\ h = [s \in Sessions |-> Idle]
    /\ accepted = << >>
    /\ probe = NoCall

\* one message at a time
Next ==
    \E s \in {"s1"} :
        \/ Receive(s, Texts)
        \/ WaitSendDone(s)
        \/ PlaceholderDone(s)
        \/ LookupDone(s, Bodies)
        \/ FetchDone(s)
        \/ TrySendDone(s)
        \/ CatchSendDone(s)
        \/ DeleteDone(s)
        \/ Return(s)

Spec == Init /\ [][Next]_vars

\* the defaults of the Schema, index.ts 121-130
DefaultConfig == [useLocalParsing |-> TRUE, showScreenshot |-> TRUE,
                  sendSeparately |-> FALSE, useForward |-> FALSE,
                  debugMode |-> FALSE]

InitDefault ==
    /\ config = DefaultConfig
    /\ lastRequestTime = 0
    /\ clock = Epoch
    /\ h = [s \in Sessions |-> Idle]
    /\ accepted = << >>
    /\ probe = NoCall

BusyTexts == {<< <<"hello">> >>, <<FullLink>>}

BusyBodies == {Body(RateLimited, Absent, Absent, Null, << >>),
               Body(Absent, Absent, Title, Num(1536), <<"str">>)}

\* messages of several sessions in flight at once: the runs interleave at
\* their awaits
NextConc ==
    \E s \in Sessions :
        \/ Receive(s, BusyTexts)
        \/ WaitSendDone(s)
        \/ PlaceholderDone(s)
        \/ LookupDone(s, BusyBodies)
        \/ FetchDone(s)
        \/ TrySendDone(s)
        \/ CatchSendDone(s)
        \/ DeleteDone(s)
        \/ Return(s)

SpecConc == InitDefault /\ [][NextConc]_vars

\* magnet:?xt=urn:btih:&xt=urn:btih:hashv : the first xt carries no hash
EmptyXtLink == <<"magnet:?", "xt", "=", "urn:btih:", "&">> \o Hash

\* magnet:?xt=urn:btih:hashv&xl=0 : a size of zero bytes
ZeroSizeLink == <<"magnet:?">> \o Hash \o <<"&", "xl", "=", "0">>

\* magnet:?xt=urn:btih:hashv : the hash and nothing else
BareLink == <<"magnet:?">> \o Hash

\* magnet:?xt=urn:btih:hashv&xl=name : a size that is no number
WordSizeLink == <<"magnet:?">> \o Hash \o <<"&", "xl", "=", "name">>

\* the links the fallback is run on
LocalLinks == Links \cup {EmptyXtLink, ZeroSizeLink, BareLink, WordSizeLink}

\* one message at a time under every configuration: each link, answered with
\* a quota text or a complete body or not at all
NextLocal ==
    \E s \in {"s1"} :
        \/ Receive(s, {<<l>> : l \in LocalLinks})
        \/ WaitSendDone(s)
        \/ PlaceholderDone(s)
        \/ LookupDone(s, BusyBodies)
        \/ FetchDone(s)
        \/ TrySendDone(s)
        \/ CatchSendDone(s)
        \/ DeleteDone(s)
        \/ Return(s)

SpecLocal == Init /\ [][NextLocal]_vars

\* the send awaited by session s throws in this step
SendThrows(s) ==
    /\ h[s].pc \in {"sendWait", "sendPlaceholder", "sendTry", "sendCatch"}
    /\ Len(h'[s].heard) = Len(h[s].heard) + 1
    /\ ~h'[s].heard[Len(h'[s].heard)].ok

\* a quiet message, a complete link, and a link no decoder result of which is
\* usable
CalmTexts == {<< <<"hello">> >>, <<FullLink>>, <<EmptyXtLink>>}

\* one body of each class: empty, quota text, other error text, name missing,
\* 'frequent' name, complete without and with a screenshot
CalmBodies ==
    {EmptyBody,
     Body(RateLimited, Absent, Absent, Null, << >>),
     Body(BadLink, Absent, Absent, Null, << >>),
     Body(Absent, Absent, Absent, Num(1536), << >>),
     Body(Absent, Absent, TooFrequent, Num(1536), << >>),
     Body(Absent, Absent, Title, Num(1536), << >>),
     Body(Absent, Absent, Title, Num(1536), <<"str", "bad">>)}

\* one message at a time under every configuration, with session.send never
\* throwing: the lookup and the downloads may still fail
NextCalm ==
    \E s \in {"s1"} :
        \/ Receive(s, CalmTexts)
        \/ WaitSendDone(s) /\ ~SendThrows(s)
        \/ PlaceholderDone(s) /\ ~SendThrows(s)
        \/ LookupDone(s, CalmBodies)
        \/ FetchDone(s)
        \/ TrySendDone(s) /\ ~SendThrows(s)
        \/ CatchSendDone(s) /\ ~SendThrows(s)
        \/ DeleteDone(s)
        \/ Return(s)

\* one message at a time, the inputs of SpecConc
NextLive ==
    \E s \in {"s1"} :
        \/ Receive(s, BusyTexts)
        \/ WaitSendDone(s)
        \/ PlaceholderDone(s)
        \/ LookupDone(s, BusyBodies)
        \/ FetchDone(s)
        \/ TrySendDone(s)
        \/ CatchSendDone(s)
        \/ DeleteDone(s)
        \/ Return(s)

\* What ends for sure.  The lookup is given config.timeout (171), so it is
\* answered or rejected in the end; the sends and the deletion are taken to
\* settle: a run does not stay at one of them for ever.  The screenshot
\* download of line 353 is given no timeout, so nothing is said of FetchDone.
Settles ==
    /\ WF_vars(WaitSendDone("s1"))
    /\ WF_vars(CatchSendDone("s1"))
    /\ WF_vars(DeleteDone("s1"))
    /\ []<>(h["s1"].pc # "sendPlaceholder")
    /\ []<>(h["s1"].pc # "lookup")
    /\ []<>(h["s1"].pc # "sendTry")

SpecLive == InitDefault /\ [][NextLive]_vars /\ Settles

\* every awaited call ends: the sends and the deletion settle, the lookup is
\* answered or rejected, and so is each download
AllSettle ==
    /\ Settles
    /\ []<>(h["s1"].pc # "fetch")

SpecCalm == Init /\ [][NextCalm]_vars /\ AllSettle

\* The plugin is reloaded with debugMode switched on: apply() runs again, its
\* closure starts with lastRequestTime = 0 (134).  The runs that have ended
\* stay on record.
Reconfigure ==
    /\ \A s \in Sessions : h[s].pc \in {"idle", "done"}
    /\ ~config.debugMode
    /\ config' = [config EXCEPT !.debugMode = TRUE]
    /\ lastRequestTime' = 0
    /\ accepted' = << >>
    /\ UNCHANGED <<clock, h, probe>>

\* one message at a time, in either session, and reloads between messages
NextDebug ==
    \/ \E s \in Sessions :
        /\ \A t \in Sessions \ {s} : h[t].pc \in {"idle", "done"}
        /\ \/ Receive(s, BusyTexts)
           \/ WaitSendDone(s)
           \/ PlaceholderDone(s)
           \/ LookupDone(s, BusyBodies)
           \/ FetchDone(s)
           \/ TrySendDone(s)
           \/ CatchSendDone(s)
           \/ DeleteDone(s)
           \/ Return(s)
    \/ Reconfigure

SpecDebug == InitDefault /\ [][NextDebug]_vars

-----------------------------------------------------------------------------
(* formatBytes, index.ts 113-119 *)

\* A byte count m * 1024^j, kept as the pair so that counts up to the
\* terabytes stay within the integers of the checker
Bytes(m, j) == [m |-> m, j |-> j]

\* sizes (116)
Sizes == <<"B", "KB", "MB", "GB", "TB">>

RECURSIVE Pow1024(_)
\* Math.pow(k, i)
Pow1024(i) == IF i = 0 THEN 1 ELSE 1024 * Pow1024(i - 1)

RECURSIVE FloorLog1024(_)
\* Math.floor(Math.log(m) / Math.log(k)) for m >= 1
FloorLog1024(m) == IF m < 1024 THEN 0 ELSE 1 + FloorLog1024(m \div 1024)

\* the text parseFloat(x.toFixed(2)) prints for x = n / 100: the whole part
\* and the decimals without trailing zeros
Decimal(n) ==
    [whole |-> n \div 100,
     frac  |-> IF n % 100 = 0 THEN << >>
               ELSE IF n % 10 = 0 THEN <<(n % 100) \div 10>>
               ELSE <<(n % 100) \div 10, n % 10>>]

\* the text '<whole>[.<frac>] <unit>'
Shown(whole, frac, unit) == [whole |-> whole, frac |-> frac, unit |-> unit, nan |-> FALSE]

\* the text 'NaN undefined'
NaNShown == [whole |-> 0, frac |-> << >>, unit |-> "undefined", nan |-> TRUE]

\* formatBytes with toFixed cutting the decimals off instead of rounding
formatBytes_truncate(bytes) ==
    IF bytes.m = 0 THEN Shown(0, << >>, "B")
    ELSE IF bytes.m < 0 THEN NaNShown
    ELSE LET e == FloorLog1024(bytes.m)
             i == e + bytes.j
             d == Decimal((100 * bytes.m) \div Pow1024(e))
         IN  Shown(d.whole, d.frac,
                   IF i + 1 <= Len(Sizes) THEN Sizes[i + 1] ELSE "undefined")

\* formatBytes(bytes): [whole, frac, unit] stands for '<whole>[.<frac>] <unit>'.
\* bytes / k^i is exact in a double, and toFixed(2) rounds the exact value to
\* the nearest hundredth, a tie upwards; sizes[i] past the array is undefined.
\* Math.log of a negative number is NaN: i is NaN, so are the quotient and
\* what parseFloat returns, and sizes[NaN] is undefined
formatBytes(bytes) ==
    IF bytes.m = 0 THEN Shown(0, << >>, "B")
    ELSE IF bytes.m < 0 THEN NaNShown
    ELSE LET e == FloorLog1024(bytes.m)
             i == e + bytes.j
             d == Decimal((200 * bytes.m + Pow1024(e)) \div (2 * Pow1024(e)))
         IN  Shown(d.whole, d.frac,
                   IF i + 1 <= Len(Sizes) THEN Sizes[i + 1] ELSE "undefined")

-----------------------------------------------------------------------------
(* The pure functions called directly: both decoders on one link *)

MaxParams == 3

\* parameters a link may carry: hashes, names (plain, holding '=', escaped
\* once and escaped twice), trackers, sizes (numeric, zero, not a number)
ParamChoices ==
    {<<"xt", "=", "urn:btih:", "hashv">>,
     <<"xt", "=", "urn:btih:", "other">>,
     <<"dn", "=", "name">>,
     <<"dn", "=", "name", "=", "more">>,
     <<"dn", "=", "%20", "name">>,
     <<"dn", "=", "%25", "7", "0">>,
     <<"tr", "=", "name">>,
     <<"tr", "=", "other">>,
     <<"xl", "=", "7">>,
     <<"xl", "=", "0">>,
     <<"xl", "=", "name">>}

RECURSIVE JoinParams(_)
\* the pieces joined with '&'
JoinParams(ps) ==
    IF ps = << >> THEN << >>
    ELSE IF Len(ps) = 1 THEN Head(ps)
    ELSE Head(ps) \o <<"&">> \o JoinParams(Tail(ps))

\* magnet links of at most MaxParams parameters
MagnetURIs ==
    {<<"magnet:?">> \o JoinParams(ps) : ps \in SeqsUpTo(ParamChoices, MaxParams)}

\* parseLocalMagnet and parseLocalMagnetManual are each called on the link
CallDecoders ==
    /\ probe = NoCall
    /\ \E uri \in MagnetURIs :
        probe' = [fn |-> "decode", uri |-> uri,
                  structured |-> parseLocalMagnet(uri),
                  manual     |-> parseLocalMagnetManual(uri)]
    /\ UNCHANGED <<config, lastRequestTime, clock, h, accepted>>

MaxMantissa == 2100
MaxShift == 4

\* byte counts m * 1024^j: every m up to MaxMantissa and the last integer
\* below 1024^2, shifted by up to MaxShift powers of 1024
ByteCounts ==
    {Bytes(m, j) : m \in (0..MaxMantissa) \cup {1024 * 1024 - 1}, j \in 0..MaxShift}

\* formatBytes is called on a byte count
CallFormatBytes ==
    /\ probe = NoCall
    /\ \E b \in ByteCounts :
        probe' = [fn |-> "formatBytes", bytes |-> b, out |-> formatBytes(b)]
    /\ UNCHANGED <<config, lastRequestTime, clock, h, accepted>>

\* the 'unknown' literal of 213 / 284
UnknownText == [lit |-> "unknown"]

\* sizeText (213, 284) of a decoded link
sizeText(lr) ==
    IF SizeTruthy(lr.size) THEN formatBytes(Bytes(lr.size.v, 0)) ELSE UnknownText

\* magnet:?xt=urn:btih:hashv&xl=... with a positive, a zero, a negative and a
\* non-numeric size, and without xl
SizedLinks ==
    {<<"magnet:?">> \o Hash \o xl :
        xl \in {<<"&", "xl", "=", "7">>, <<"&", "xl", "=", "0">>,
                <<"&", "xl", "=", "-", "7">>, <<"&", "xl", "=", "name">>, << >>}}

\* the fallback's decoding and size text (202-213, 273-284) on one link
CallSizeText ==
    /\ probe = NoCall
    /\ \E uri \in SizedLinks :
        probe' = [fn |-> "sizeText", uri |-> uri, size |-> LocalResult(uri).size,
                  out |-> sizeText(LocalResult(uri))]
    /\ UNCHANGED <<config, lastRequestTime, clock, h, accepted>>

NextPure ==
    \/ CallDecoders
    \/ CallFormatBytes
    \/ CallSizeText

SpecPure == InitDefault /\ [][NextPure]_vars

-----------------------------------------------------------------------------
(* What a run did, read off its trace *)

\* the messages sent besides the placeholder, in order
Replies(r) ==
    SelectSeq(r.trace, LAMBDA e : e.op = "send" /\ e.msg.kind # "placeholder")

\* the units of the remote-path reply that were sent, in order
UnitsSent(r) ==
    LET evs == SelectSeq(r.trace, LAMBDA e : e.op = "send" /\ e.msg.kind = "unit")
    IN  [j \in 1..Len(evs) |-> evs[j].msg]

\* the replies of the fallback: reduced form or could-not-resolve
FallbackReplies(r) ==
    SelectSeq(Replies(r), LAMBDA e : e.msg.kind \in {"reduced", "localfail"})

RepliesOfKind(r, kind) == SelectSeq(Replies(r), LAMBDA e : e.msg.kind = kind)

LocalCalls(r) == SelectSeq(r.trace, LAMBDA e : e.op = "local")
ImageGets(r)  == SelectSeq(r.trace, LAMBDA e : e.op = "image")
Lookups(r)    == SelectSeq(r.trace, LAMBDA e : e.op = "get")

\* the run of session s was triggered by nothing: no match, or a first match
\* without the hash marker
Quiet(r) ==
    \/ FirstMatch(r.text) = << >>
    \/ ~Includes(FirstMatch(r.text), <<"xt", "=", "urn:btih:">>)

-----------------------------------------------------------------------------
\* C1: a message whose text holds no magnet match, or whose first match lacks
\* 'xt=urn:btih:', makes the handler call next() and nothing else: no send, no
\* lookup, no screenshot fetch, and lastRequestTime keeps its value.
C1_QuietPassThrough ==
    /\ [](\A s \in Sessions :
            (h[s].pc # "idle" /\ Quiet(h[s])) =>
                /\ h[s].pc = "done"
                /\ h[s].trace = <<EvNext>>
                /\ ~h[s].threw)
    /\ [][\A s \in Sessions :
            (h[s].pc = "idle" /\ h'[s].pc # "idle" /\ Quiet(h'[s])) =>
                /\ lastRequestTime' = lastRequestTime
                /\ accepted' = accepted]_vars

\* a first match without hash, followed by a complete link, was passed through
C1_Witness ==
    \E s \in Sessions :
        /\ h[s].pc = "done"
        /\ FirstMatch(h[s].text) # << >>
        /\ ~HasHashParam(FirstMatch(h[s].text))
        /\ \E i \in 1..Len(h[s].text) : HasHashParam(h[s].text[i])
        /\ h[s].trace = <<EvNext>>

\* C2: whatever the interleaving of the runs, any two triggers the throttle
\* let pass have timestamps at least minInterval apart.
C2_AcceptedApart ==
    \A i, j \in 1..Len(accepted) :
        i < j => accepted[j] - accepted[i] >= minInterval

\* two accepted runs are in flight together, each waiting at an await
C2_Witness ==
    /\ Len(accepted) >= 2
    /\ \A s \in Sessions : h[s].pc \in {"lookup", "fetch", "sendTry"}
    /\ h["s1"].now # h["s2"].now

\* C3: a trigger that arrives less than minInterval after the last accepted
\* one is rejected: a wait notice with the remaining time rounded up to whole
\* seconds (at least 1) is sent, lastRequestTime is not changed, and the run
\* sends no placeholder and issues no lookup.
C3_Rejected ==
    /\ [][\A s \in Sessions :
            (/\ h[s].pc = "idle" /\ h'[s].pc # "idle" /\ ~Quiet(h'[s])
             /\ accepted # << >>
             /\ h'[s].now - accepted[Len(accepted)] < minInterval) =>
                LET left == minInterval - (h'[s].now - accepted[Len(accepted)])
                    ev   == h'[s].trace[1]
                IN  /\ h'[s].pc = "sendWait"
                    /\ Len(h'[s].trace) = 1
                    /\ ev.op = "send" /\ ev.msg.kind = "wait"
                    /\ ev.msg.sec >= 1
                    /\ 1000 * (ev.msg.sec - 1) < left /\ left <= 1000 * ev.msg.sec
                    /\ lastRequestTime' = lastRequestTime
                    /\ accepted' = accepted]_vars
    /\ [][\A s \in Sessions :
            (h[s].pc = "sendWait" /\ h'[s] # h[s]) =>
                /\ h'[s].pc = "done"
                /\ h'[s].trace = h[s].trace
                /\ lastRequestTime' = lastRequestTime]_vars

\* a rejected trigger 1500 ms after the accepted one: the notice says 2 seconds,
\* while the accepted run is still in flight
C3_Witness ==
    \E s, t \in Sessions :
        /\ h[s].pc = "sendWait"
        /\ h[s].trace[1].msg.sec = 2
        /\ h[t].pc = "lookup"

\* C4: in a run whose placeholder send returned a message id, deleteMessage
\* is called exactly once, after every other send of the run, on every exit
\* path; whether it succeeds or throws, the run ends there with no further
\* message and no change to how the run ends.
C4_PlaceholderDeleted ==
    /\ [](\A s \in Sessions :
            /\ \A i \in 1..Len(h[s].trace) :
                    h[s].trace[i].op = "delete" =>
                        i = Len(h[s].trace) /\ h[s].ph = "ids"
            /\ (h[s].pc = "done" /\ h[s].ph = "ids") =>
                    h[s].trace[Len(h[s].trace)].op = "delete")
    /\ [][\A s \in Sessions :
            (h[s].pc = "delete" /\ h'[s] # h[s]) =>
                /\ h'[s].pc = "done"
                /\ h'[s].trace = h[s].trace
                /\ h'[s].threw = h[s].threw]_vars

\* the send of the catch block threw, the placeholder was still deleted, and the
\* deletion failed
C4_Witness ==
    \E s \in Sessions :
        /\ h[s].pc = "done" /\ h[s].ph = "ids"
        /\ h[s].threw /\ h[s].del = "failed"
        /\ h[s].trace[Len(h[s].trace)].op = "delete"

-----------------------------------------------------------------------------
(* The answers the claims speak of, stated on the body itself *)

Keywords == {"quota", "limit", "frequent", "rate"}

HasKeyword(ws) == \E kw \in Keywords : includes(toLowerCase(ws), kw)

Answered(b) == b.got = "body" /\ ~b.empty

\* an error/message text that holds one of the keywords
QuotaAnswer(b) ==
    /\ Answered(b)
    /\ ErrorMsgOf(b).t = "str" /\ ErrorMsgOf(b).v # << >>
    /\ HasKeyword(ErrorMsgOf(b).v)

NoErrorField(b) == ~Truthy(b.error) /\ ~Truthy(b.message)

UsableSize(b) == b.size.t = "num" /\ b.size.v # 0

FrequentName(b) ==
    b.name.t = "str" /\ includes(toLowerCase(b.name.v), "frequent")

\* an error/message text without keyword, or a name that says 'frequent'
OtherAnswer(b) ==
    /\ Answered(b)
    /\ \/ /\ ErrorMsgOf(b).t = "str" /\ ErrorMsgOf(b).v # << >>
          /\ ~HasKeyword(ErrorMsgOf(b).v)
       \/ /\ NoErrorField(b) /\ UsableSize(b) /\ FrequentName(b)

CitedText(b) == IF NoErrorField(b) THEN b.name.v ELSE ErrorMsgOf(b).v

Successful(b) ==
    /\ Answered(b) /\ NoErrorField(b)
    /\ Truthy(b.name) /\ UsableSize(b) /\ ~FrequentName(b)

\* the fallback's reply is the reduced form exactly when a hash was recovered
FallbackReplyOk(r, m, banner) ==
    LET lr == LocalResult(r.uri)
    IN  IF ~lr.null /\ lr.hash # << >>
        THEN /\ m.kind = "reduced" /\ m.banner = banner
             /\ m.hash = lr.hash /\ m.name = lr.name
        ELSE m.kind = "localfail"

-----------------------------------------------------------------------------
\* C5: after an answer whose error/message text holds 'quota', 'limit',
\* 'frequent' or 'rate', a run with useLocalParsing sends exactly one
\* reduced-form reply built from the decoded link (or the could-not-resolve
\* notice when no hash was recovered), a run without it sends exactly one quota
\* notice and does not decode; no screenshot is fetched and no remote-path unit
\* is sent.
C5_QuotaRouting ==
    \A s \in Sessions :
        (h[s].pc = "done" /\ QuotaAnswer(h[s].resp)) =>
            /\ ImageGets(h[s]) = << >>
            /\ UnitsSent(h[s]) = << >>
            /\ IF config.useLocalParsing
               THEN /\ Len(FallbackReplies(h[s])) = 1
                    /\ FallbackReplyOk(h[s], FallbackReplies(h[s])[1].msg, "quota")
               ELSE /\ Len(RepliesOfKind(h[s], "quota")) = 1
                    /\ LocalCalls(h[s]) = << >>

\* C6: after a rejected lookup the run sends exactly one message: with
\* useLocalParsing the Local Decoder is run and the reduced-form reply (or the
\* could-not-resolve notice) is sent; without it the generic failure notice is
\* sent and the Local Decoder is not run.
C6_TransportFallback ==
    \A s \in Sessions :
        (h[s].pc = "done" /\ h[s].resp.got = "failure") =>
            /\ Len(Replies(h[s])) = 1
            /\ Len(Lookups(h[s])) = 1
            /\ IF config.useLocalParsing
               THEN /\ LocalCalls(h[s]) # << >>
                    /\ FallbackReplyOk(h[s], Replies(h[s])[1].msg, "failed")
               ELSE /\ Replies(h[s])[1].msg.kind = "generic"
                    /\ LocalCalls(h[s]) = << >>

\* a rejected lookup answered with the reduced-form reply of the manual decoder
C6_Witness ==
    \E s \in Sessions :
        /\ h[s].pc = "done" /\ h[s].resp.got = "failure"
        /\ config.useLocalParsing
        /\ Len(LocalCalls(h[s])) = 2
        /\ Replies(h[s])[1].msg.kind = "reduced"

\* C7: after an answer that lacks size or lacks name, the run sends the 'data
\* incomplete' notice, sends no reduced-form reply and does not invoke the Local
\* Decoder, whatever useLocalParsing and whatever else the body holds.
C7_MissingFieldIncomplete ==
    \A s \in Sessions :
        (/\ h[s].pc = "done" /\ Answered(h[s].resp)
         /\ (h[s].resp.size = Null \/ h[s].resp.name = Absent)) =>
            /\ Len(RepliesOfKind(h[s], "incomplete")) = 1
            /\ FallbackReplies(h[s]) = << >>
            /\ LocalCalls(h[s]) = << >>

\* C8: after an empty or absent body the run sends one failure notice and
\* stops; the Local Decoder is not invoked and no reduced-form reply is sent,
\* also with useLocalParsing.
C8_EmptyBodyNotice ==
    \A s \in Sessions :
        (h[s].pc = "done" /\ h[s].resp.got = "body" /\ h[s].resp.empty) =>
            /\ Len(Replies(h[s])) >= 1
            /\ FallbackReplies(h[s]) = << >>
            /\ LocalCalls(h[s]) = << >>

\* C9: after an answer classified OtherError the run sends exactly one failure
\* notice citing the text and stops: the Local Decoder is not invoked, no
\* screenshot is fetched and no remote-path unit is sent, whatever
\* useLocalParsing.
C9_OtherErrorNotice ==
    \A s \in Sessions :
        (h[s].pc = "done" /\ OtherAnswer(h[s].resp)) =>
            /\ Len(RepliesOfKind(h[s], "error")) = 1
            /\ RepliesOfKind(h[s], "error")[1].msg.text = CitedText(h[s].resp)
            /\ FallbackReplies(h[s]) = << >>
            /\ LocalCalls(h[s]) = << >>
            /\ ImageGets(h[s]) = << >>
            /\ UnitsSent(h[s]) = << >>

\* the units the claim expects for the fetched images, in list order
SeparateUnits(images) ==
    <<Unit("message", <<TextBlock>>)>>
    \o [j \in 1..Len(images) |-> Unit("message", <<Image(images[j])>>)]

IsPrefix(p, q) == Len(p) <= Len(q) /\ SubSeq(q, 1, Len(p)) = p

\* C10: with sendSeparately and a successful answer, formatApiResponse returns
\* 1 + k units for the k fetched screenshots: the text block, then one unit
\* per image in the order of the screenshot list; the units are sent in that
\* order, all of them unless a send throws.
C10_SeparateUnits ==
    \A s \in Sessions :
        (/\ config.sendSeparately /\ Successful(h[s].resp)
         /\ h[s].pc \in {"sendTry", "sendCatch", "delete", "done"}) =>
            LET r == h[s]
                expected == SeparateUnits(r.images)
            IN  /\ \A j \in 1..Len(r.images) :
                        /\ HasUrl(r.resp.screenshots[r.images[j]])
                        /\ j > 1 => r.images[j - 1] < r.images[j]
                /\ Len(expected) = 1 + Len(r.images)
                /\ IF r.pc = "sendTry"
                   THEN UnitsSent(r) \o r.queue = expected
                   ELSE /\ IsPrefix(UnitsSent(r), expected)
                        /\ Len(Replies(r)) = Len(UnitsSent(r)) =>
                                UnitsSent(r) = expected

\* every screenshot of the list was fetched and the text and the images went
\* out one by one
C10_Witness ==
    \E s \in Sessions :
        /\ config.sendSeparately /\ Successful(h[s].resp)
        /\ h[s].pc = "done"
        /\ Len(h[s].images) = MaxShots
        /\ UnitsSent(h[s]) = SeparateUnits(h[s].images)
        /\ Len(UnitsSent(h[s])) = 1 + MaxShots


\* the units formatApiResponse returned: those sent and those still queued
UnitsReturned(r) == IF r.pc = "sendTry" THEN UnitsSent(r) \o r.queue ELSE UnitsSent(r)

\* the run has a successful answer and formatApiResponse has returned
Formatted(r) ==
    /\ Successful(r.resp)
    /\ r.pc \in {"sendTry", "sendCatch", "delete", "done"}

\* C11: without sendSeparately a successful answer gives exactly one unit
\* holding the text followed by the fetched images in list order; the unit is a
\* forward ('figure') exactly when useForward is set and the platform is qq or
\* onebot, an inline message otherwise. With sendSeparately no forward unit is
\* produced, whatever useForward.
C11_CompositeUnit ==
    \A s \in Sessions :
        Formatted(h[s]) =>
            LET r == h[s]
                units == UnitsReturned(r)
            IN  IF config.sendSeparately
                THEN \A j \in 1..Len(units) : units[j].tag # "figure"
                ELSE /\ Len(units) = 1
                     /\ units[1].children =
                            <<TextBlock>>
                            \o [j \in 1..Len(r.images) |-> Image(r.images[j])]
                     /\ units[1].tag = "figure" <=>
                            (config.useForward /\ r.platform \in {"qq", "onebot"})
                     /\ units[1].tag \in {"figure", "message"}

\* a forward unit with the text and two images went out on onebot
C11_Witness ==
    \E s \in Sessions :
        /\ Formatted(h[s]) /\ h[s].pc = "done"
        /\ ~config.sendSeparately /\ config.useForward
        /\ h[s].platform = "onebot"
        /\ UnitsSent(h[s]) = <<Unit("figure", <<TextBlock, Image(1), Image(3)>>)>>


\* the positions of the screenshot list that hold a URL, in list order
Fetchable(shots) ==
    SelectSeq([j \in 1..Len(shots) |-> j],
              LAMBDA j : shots[j] \in {"obj", "str"})

\* what the run did after the lookup, the image downloads left out
AfterLookup(r) ==
    SelectSeq(r.trace,
              LAMBDA e : ~(e.op \in {"get", "image"})
                         /\ ~(e.op = "send" /\ e.msg.kind = "placeholder"))

\* C12: with a successful answer and showScreenshot, every entry that holds a
\* URL is downloaded, in list order, whatever the outcome of the downloads
\* before it; a failed download only leaves its image out. While the downloads
\* go on nothing is sent and nothing is decoded, and the first thing the run
\* does after them is send the remote-path reply, which holds the text (alone
\* when every download failed) and the images that arrived.
C12_FetchFailureLocal ==
    \A s \in Sessions :
        (Successful(h[s].resp) /\ config.showScreenshot) =>
            LET r == h[s]
                want == Fetchable(r.resp.screenshots)
            IN  /\ \A j \in 1..Len(r.images) :
                        /\ \E k \in 1..Len(want) : want[k] = r.images[j]
                        /\ j > 1 => r.images[j - 1] < r.images[j]
                /\ r.pc = "fetch" =>
                        /\ AfterLookup(r) = << >>
                        /\ IsPrefix([j \in 1..Len(ImageGets(r)) |-> ImageGets(r)[j].i],
                                    want)
                /\ Formatted(r) =>
                        /\ [j \in 1..Len(ImageGets(r)) |-> ImageGets(r)[j].i] = want
                        /\ AfterLookup(r) # << >>
                        /\ AfterLookup(r)[1].op = "send"
                        /\ AfterLookup(r)[1].msg.kind = "unit"
                        /\ AfterLookup(r)[1].msg.children[1] = TextBlock
                        /\ IsPrefix(UnitsSent(r), Assemble(r.images, r.platform))
                        /\ r.pc = "sendTry" =>
                                UnitsReturned(r) = Assemble(r.images, r.platform)
                /\ r.pc \in {"fetch", "sendTry"} =>
                        /\ LocalCalls(r) = << >>
                        /\ \A j \in 1..Len(Replies(r)) : Replies(r)[j].msg.kind = "unit"

\* three screenshots, every download failed, and the text alone was sent
C12_Witness ==
    \E s \in Sessions :
        /\ Successful(h[s].resp) /\ config.showScreenshot
        /\ h[s].pc = "done" /\ ~h[s].threw
        /\ Len(ImageGets(h[s])) = 3
        /\ h[s].images = << >>
        /\ Replies(h[s]) = <<EvSend(Unit("message", <<TextBlock>>))>>
        /\ LocalCalls(h[s]) = << >>


\* both decoders gave a result with a hash for the probed link
BothDecoded ==
    /\ probe.fn = "decode"
    /\ ~probe.structured.null /\ probe.structured.hash # << >>
    /\ ~probe.manual.null /\ probe.manual.hash # << >>

\* C13: whenever parseLocalMagnet and parseLocalMagnetManual both recover a
\* hash from the same link, they agree on hash, name, trackers (same elements,
\* same order) and size.
C13_DecodersAgree ==
    BothDecoded =>
        /\ probe.structured.hash = probe.manual.hash
        /\ probe.structured.name = probe.manual.name
        /\ probe.structured.trackers = probe.manual.trackers
        /\ probe.structured.size = probe.manual.size


\* the hundredths a rendered number stands for
Hundredths(out) ==
    100 * out.whole
    + (CASE Len(out.frac) = 0 -> 0
         [] Len(out.frac) = 1 -> 10 * out.frac[1]
         [] OTHER -> 10 * out.frac[1] + out.frac[2])

Waiting(r) == r.pc \in {"lookup", "fetch"}

\* C15: no run waits forever on the lookup or on a screenshot download: each
\* such call ends, and a run that is downloading screenshots goes on to send
\* its reply and reaches its end, the placeholder deleted if it was sent.
C15_CallsBounded ==
    \A s \in {"s1"} :
        /\ Waiting(h[s]) ~> ~Waiting(h[s])
        /\ (h[s].pc = "fetch") ~>
                (/\ h[s].pc = "done"
                 /\ UnitsSent(h[s]) # << >>
                 /\ h[s].ph = "ids" => h[s].trace[Len(h[s].trace)] = EvDelete)


\* two runs were given the same message, the same clock and throttle state and
\* the same answers to the awaits both of them made
SameInputs(a, b) ==
    /\ a.text = b.text /\ a.platform = b.platform
    /\ a.now = b.now /\ a.last = b.last
    /\ IsPrefix(a.heard, b.heard) \/ IsPrefix(b.heard, a.heard)

\* C16: two finished runs that differ in debugMode only (same message, same
\* throttle state, same answers from the lookup, the downloads, the sends and
\* the deletion, same other options) did the same things in the same order:
\* next(), sends, lookup, downloads, decoder calls, deletion.
C16_DebugModeSilent ==
    \A s, t \in Sessions :
        (/\ h[s].pc = "done" /\ h[t].pc = "done"
         /\ h[s].debugMode # h[t].debugMode
         /\ SameInputs(h[s], h[t])) =>
            /\ h[s].trace = h[t].trace
            /\ h[s].heard = h[t].heard
            /\ h[s].threw = h[t].threw
            /\ h[s].del = h[t].del

\* the same link answered with a screenshot, once with debugMode off and once
\* with it on: the second run logged at every stage
C16_Witness ==
    \E s, t \in Sessions :
        /\ h[s].pc = "done" /\ h[t].pc = "done"
        /\ ~h[s].debugMode /\ h[t].debugMode
        /\ SameInputs(h[s], h[t])
        /\ h[s].log = << >>
        /\ h[t].log = <<"link", "request", "response", "screenshots", "recall">>
        /\ ImageGets(h[t]) # << >>
        /\ h[t].del = "ok"


\* C17: the Local Decoder runs, and a reduced-form reply or could-not-resolve
\* notice is sent, only in a run whose lookup was rejected or answered with a
\* quota text; in particular never in a run whose answer was classified
\* Success, whatever its sends did, and never after an answer whose error
\* field is not text.
C17_FallbackOnlyOnFailureOrQuota ==
    \A s \in Sessions :
        (LocalCalls(h[s]) # << >> \/ FallbackReplies(h[s]) # << >>) =>
            \/ h[s].resp.got = "failure"
            \/ QuotaAnswer(h[s].resp)


\* a decoder's result carries a hash
Recovered(lr) == ~lr.null /\ lr.hash # << >>

\* C18: each message the fallback sends is the reduced-form reply, carrying a
\* non-empty hash that one of the decoders recovered from the link, or it is
\* the could-not-resolve notice and then neither the structured nor the manual
\* decoder recovers a hash from the link.
C18_CouldNotResolveLast ==
    \A s \in Sessions :
        \A k \in 1..Len(FallbackReplies(h[s])) :
            LET m == FallbackReplies(h[s])[k].msg
            IN  IF m.kind = "reduced"
                THEN /\ m.hash # << >>
                     /\ m.hash \in {parseLocalMagnet(h[s].uri).hash,
                                    parseLocalMagnetManual(h[s].uri).hash}
                ELSE /\ ~Recovered(parseLocalMagnet(h[s].uri))
                     /\ ~Recovered(parseLocalMagnetManual(h[s].uri))


\* the fallback ran in this run: its decoder calls and the message it awaits or sent
Fallen(r) == LocalCalls(r) # << >> /\ FallbackReplies(r) # << >>

\* C19: each time the fallback runs in a run (the quota branch, the catch, or
\* both in turn), parseLocalMagnet is called first and parseLocalMagnetManual
\* is called right after it exactly when parseLocalMagnet returned null; every
\* reduced-form reply shows the name, hash, size and tracker count of the one
\* result kept: the structured one when it is not null, the manual one
\* otherwise.
C19_OneStrategy ==
    \A s \in Sessions :
        Fallen(h[s]) =>
            LET first  == parseLocalMagnet(h[s].uri)
                second == parseLocalMagnetManual(h[s].uri)
                kept   == IF first.null THEN second ELSE first
                calls  == LocalCalls(h[s])
                sent   == FallbackReplies(h[s])
            IN  /\ calls[1] = EvLocal("parseLocalMagnet")
                /\ \A k \in 1..Len(calls) :
                        IF calls[k] = EvLocal("parseLocalMagnetManual")
                        THEN /\ first.null
                             /\ k > 1 /\ calls[k - 1] = EvLocal("parseLocalMagnet")
                        ELSE first.null =>
                                /\ k < Len(calls)
                                /\ calls[k + 1] = EvLocal("parseLocalMagnetManual")
                /\ \A k \in 1..Len(sent) :
                        sent[k].msg.kind = "reduced" =>
                            /\ sent[k].msg.name = kept.name
                            /\ sent[k].msg.hash = kept.hash
                            /\ sent[k].msg.trackers = Len(kept.trackers)
                            /\ sent[k].msg.sizeText.known =>
                                    sent[k].msg.sizeText.bytes = kept.size.v

\* a link whose name makes parseLocalMagnet return null was answered with a
\* reduced-form reply after both decoders were called in order
C19_Witness ==
    \E s \in Sessions :
        /\ h[s].pc = "done" /\ Fallen(h[s])
        /\ FallbackReplies(h[s])[1].msg.kind = "reduced"
        /\ parseLocalMagnet(h[s].uri).null
        /\ LocalCalls(h[s]) = <<EvLocal("parseLocalMagnet"),
                                 EvLocal("parseLocalMagnetManual")>>


\* the size of the result the reply was built from
KeptSize(r) == LocalResult(r.uri).size

\* C20: every reduced-form reply shows the formatted size whenever the decoded
\* result has a size (any number, zero included), and the 'unknown' literal
\* exactly when the result has no size.
C20_SizeShown ==
    \A s \in Sessions :
        \A k \in 1..Len(FallbackReplies(h[s])) :
            LET m == FallbackReplies(h[s])[k].msg
            IN  m.kind = "reduced" =>
                    /\ m.sizeText.known <=> KeptSize(h[s]) # Null
                    /\ m.sizeText.known => m.sizeText.bytes = KeptSize(h[s]).v


\* the events of a run's trace from the first decoder call on
FromFirstLocal(r) ==
    LET first == CHOOSE k \in 1..Len(r.trace) :
                    /\ r.trace[k].op = "local"
                    /\ \A j \in 1..(k - 1) : r.trace[j].op # "local"
    IN  SubSeq(r.trace, first, Len(r.trace))

\* C21: every reduced-form reply carries one hint: the 'link incomplete' hint
\* exactly when the result it was built from has the default name, no size
\* (no byte count at all) and no tracker, the 'basic information only' hint
\* otherwise; and no screenshot is downloaded once the fallback has begun.
C21_HintLine ==
    \A s \in Sessions :
        \A k \in 1..Len(FallbackReplies(h[s])) :
            LET m  == FallbackReplies(h[s])[k].msg
                lr == LocalResult(h[s].uri)
            IN  m.kind = "reduced" =>
                    /\ m.hint \in {"incompleteLink", "basicOnly"}
                    /\ m.hint = "incompleteLink" <=>
                            /\ lr.name = DefaultName
                            /\ lr.size.t # "num"
                            /\ Len(lr.trackers) = 0
                    /\ \A j \in 1..Len(FromFirstLocal(h[s])) :
                            FromFirstLocal(h[s])[j].op # "image"


\* what the user was told about the link: everything sent but the placeholder
\* and the wait notice
Answers(r) == SelectSeq(Replies(r), LAMBDA e : e.msg.kind # "wait")

\* C22: with sends that succeed and network calls that end, every run that
\* passed the throttle goes on to send at least one reply or notice and to
\* finish; and once a successful answer has been formatted, the reply is a
\* sequence of at least one unit, the first of which begins with the text.
C22_AlwaysAnswered ==
    \A s \in {"s1"} :
        /\ (h[s].pc = "sendPlaceholder") ~>
                (h[s].pc = "done" /\ Answers(h[s]) # << >>)
        /\ [](Formatted(h[s]) =>
                /\ Len(UnitsReturned(h[s])) >= 1
                /\ UnitsReturned(h[s])[1].children[1] = TextBlock)

\* a run with a complete answer sent the text and an image as separate units
\* and deleted its placeholder
C22_Witness ==
    \E s \in {"s1"} :
        /\ h[s].pc = "done"
        /\ Successful(h[s].resp)
        /\ Len(UnitsSent(h[s])) >= 2
        /\ h[s].del = "ok"


\* the stage of a run an event of its trace belongs to: placeholder send,
\* remote lookup, screenshot downloads, replies (decoding included), deletion
Stage(e) ==
    CASE e.op = "send" /\ e.msg.kind = "placeholder" -> 1
      [] e.op = "get" -> 2
      [] e.op = "image" -> 3
      [] e.op = "delete" -> 5
      [] OTHER -> 4

\* C23: a run issues at most one lookup; its placeholder send, lookup,
\* screenshot downloads, replies and deletion happen in that order; a lookup
\* is issued only by a run that passed the throttle and recorded its time, and
\* whose placeholder send has returned; screenshots are downloaded only after
\* the lookup returned an answer classified Success.
C23_RunOrder ==
    \A s \in Sessions :
        LET r == h[s]
            t == r.trace
        IN  /\ Len(Lookups(r)) <= 1
            /\ \A i, j \in 1..Len(t) : i < j => Stage(t[i]) <= Stage(t[j])
            /\ Lookups(r) # << >> =>
                    /\ ThrottleAllowed(r.now, r.last)
                    /\ \E k \in 1..Len(accepted) : accepted[k] = r.now
                    /\ lastRequestTime >= r.now
                    /\ t[1] = [op |-> "send", msg |-> Placeholder]
                    /\ t[2].op = "get"
                    /\ r.heard # << >> /\ r.heard[1].ok
            /\ ImageGets(r) # << >> =>
                    /\ Lookups(r) # << >>
                    /\ Successful(r.resp)
                    /\ Len(r.heard) >= 2 /\ r.heard[2].body = r.resp

\* a run went through all five stages: placeholder, lookup, two downloads,
\* reply, deletion
C23_Witness ==
    \E s \in Sessions :
        /\ h[s].pc = "done"
        /\ Len(Lookups(h[s])) = 1
        /\ Len(ImageGets(h[s])) = 2
        /\ UnitsSent(h[s]) # << >>
        /\ h[s].trace[Len(h[s].trace)].op = "delete"


\* a text that reads as a size: a number that is not negative, then a unit
SizeLike(out) ==
    /\ ~out.nan
    /\ out.whole >= 0
    /\ \E k \in 1..Len(Sizes) : out.unit = Sizes[k]

\* C24: whatever integer size formatBytes is given, by the remote answer or by
\* the xl of the link, the text it returns is a non-negative number followed
\* by one of B, KB, MB, GB, TB; the size text of the reduced-form reply is
\* that or the 'unknown' literal.
C24_UnitInList ==
    /\ probe.fn = "formatBytes" => SizeLike(probe.out)
    /\ probe.fn = "sizeText" => (probe.out = UnknownText \/ SizeLike(probe.out))

=============================================================================
